---- MODULE Spec2Model ----
(***************************************************************************)
(* Data-access core of cchange.api: the Mongoose models Object, User,      *)
(* Charity and Post.  Every model method is a chain of callbacks around    *)
(* store calls (Database.findOne, Database.update).  A store call is       *)
(* issued by the synchronous part of a method and is applied by the store  *)
(* later, atomically on one document; calls of different clients           *)
(* interleave between those points.                                        *)
(***************************************************************************)
EXTENDS Integers, Sequences, FiniteSets, TLC

VARIABLES
    db,      \* the store: model name -> sequence of documents, in insertion order
    now,     \* the clock read by Dates.now()
    proc,    \* per client: the method call in progress and its outcome
    pushed,  \* history: <<model, guid, field>> -> child ids whose $push was applied
    nops     \* number of method calls started so far

vars == <<db, now, proc, pushed, nops>>

----------------------------------------------------------------------------
(* Bounds of the model *)

\* Uuid.v4() draws from an id space of MaxGuid identifiers
MaxGuid == 2
\* the clock stops advancing at MaxTime
MaxTime == 2
\* method calls started in one behaviour
MaxOps == 2

Procs == {"p1", "p2"}

GuidNames == <<"g1", "g2", "g3", "g4">>
Guids == {GuidNames[i] : i \in 1..MaxGuid}

----------------------------------------------------------------------------
(* Values *)

\* JavaScript undefined (an absent property), for string-valued fields
Undefined == "undefined"
\* an absent Number field (dateCreated, lastModified); the clock starts above it
NoTime == 0
\* the null handed to a callback (no error, no object)
Null == "null"

\* the err of a store call that failed
StoreError == "StoreError"
\* the exception of reading a property of null or undefined, or of calling
\* a method the value does not have
TypeError == "TypeError"

\* JavaScript truthiness of a string-or-undefined value: `if (caption)`
Truthy(v) == v \notin {Undefined, ""}

Models == {"User", "Charity", "Post"}

\* Object.js: the fields every schema inherits, with their defaults
ObjectProperties ==
    [guid |-> Undefined, dateCreated |-> NoTime, lastModified |-> NoTime,
     erased |-> FALSE]

UserProperties ==
    [name |-> Undefined, email |-> Undefined, password |-> Undefined]

CharityProperties ==
    [name |-> Undefined, description |-> "", logo |-> "",
     charityToken |-> Undefined, users |-> <<>>, campaigns |-> <<>>,
     updates |-> <<>>]

PostProperties ==
    [objectType |-> "post", user |-> Undefined, campaign |-> Undefined,
     category |-> Undefined, charity |-> Undefined, image |-> Undefined,
     shareableImage |-> Undefined, caption |-> Undefined, donations |-> <<>>]

\* a document of `model` as Mongoose hydrates it when no field is stored
Schema(model) ==
    CASE model = "User" -> ObjectProperties @@ UserProperties
      [] model = "Charity" -> ObjectProperties @@ CharityProperties
      [] model = "Post" -> ObjectProperties @@ PostProperties

ArrayFields(model) ==
    CASE model = "User" -> {}
      [] model = "Charity" -> {"users", "campaigns", "updates"}
      [] model = "Post" -> {"donations"}

----------------------------------------------------------------------------
(* tools/Database: the store gateway (findOne, update) *)

NoFields == [f \in {} |-> Undefined]
NoUpdate == [set |-> NoFields, push |-> NoFields]

Matches(doc, query) == \A f \in DOMAIN query : doc[f] = query[f]

\* index of the first document of coll matching query, 0 when there is none
FindIndex(coll, query) ==
    IF \E i \in 1..Len(coll) : Matches(coll[i], query)
    THEN CHOOSE i \in 1..Len(coll) :
            /\ Matches(coll[i], query)
            /\ \A j \in 1..(i - 1) : ~Matches(coll[j], query)
    ELSE 0

\* Database.findOne: does a document matching query exist
Found(model, query) == FindIndex(db[model], query) # 0

\* Database.findOne: the matching document (only read when Found)
findOne(model, query) == db[model][FindIndex(db[model], query)]

\* one document after {'$set': ..., '$push': ...}
ApplyUpdate(doc, update) ==
    [f \in DOMAIN doc |->
        IF f \in DOMAIN update.set THEN update.set[f]
        ELSE IF f \in DOMAIN update.push THEN Append(doc[f], update.push[f])
        ELSE doc[f]]

\* Database.update: upsert of the single document matching query.  The
\* inserted document starts from the query's fields.  The unique indexes the
\* schemas declare (guid, email) are left to the store and reject nothing
\* here: every write below is keyed by the guid it sets.
Upsert(coll, model, query, update) ==
    LET i == FindIndex(coll, query) IN
    IF i = 0
    THEN Append(coll, ApplyUpdate(query @@ Schema(model), update))
    ELSE [coll EXCEPT ![i] = ApplyUpdate(@, update)]

\* tools/Dates: Dates.now().  The clock is seen only through its readings:
\* a reading is the previous reading or a later time.
DatesNow == now'

\* a step that reads the clock
Clock == now' \in {t \in {now, now + 1} : t <= MaxTime}

----------------------------------------------------------------------------
(* Inputs of the method calls *)

\* decoded tokens handed over by the routing layer
Tokens == {[user |-> g, charity |-> g] : g \in {"g1", "g2"}}

\* the objects whose guid an append stores (donation, user, campaign, update)
Children == {[guid |-> g] : g \in {"c1", "c2"}}

\* the arguments of the create calls: two input sets per model
SeedInput ==
    [User |-> [name |-> "ann", email |-> "ann@x.org", password |-> "hash1"],
     Charity |-> [name |-> "Helping Hands", charityToken |-> [guid |-> "t1"]],
     Post |-> [user |-> [guid |-> "g1"],
               campaign |-> [guid |-> "g1", category |-> "animals"],
               charity |-> [guid |-> "g1"], image |-> "img1", caption |-> "cap1",
               shareableImage |-> "share1"]]

UserInputs ==
    {SeedInput.User,
     [name |-> "bob", email |-> "bob@x.org", password |-> "hash2"]}

CharityInputs ==
    {SeedInput.Charity,
     [name |-> "Open Doors", charityToken |-> [guid |-> "t2"]]}

PostInputs ==
    {SeedInput.Post,
     [user |-> [guid |-> "g2"], campaign |-> [guid |-> "g2", category |-> "health"],
      charity |-> [guid |-> "g2"], image |-> "img2", caption |-> Undefined,
      shareableImage |-> "share2"]}

\* the caption argument of Post.edit
Captions == {Undefined, "", "cap2"}

\* the {name, description, logo} arguments of Charity.edit
CharityEdits ==
    {[name |-> "Helping Hands Inc", description |-> Undefined, logo |-> Undefined],
     [name |-> Undefined, description |-> "we help", logo |-> Undefined],
     [name |-> Undefined, description |-> Undefined, logo |-> "logo2"],
     [name |-> "", description |-> "we help", logo |-> ""],
     [name |-> Undefined, description |-> Undefined, logo |-> Undefined]}

\* the documents of `model` an instance method can be called on
Instances(model) == {db[model][i] : i \in 1..Len(db[model])}

----------------------------------------------------------------------------
(* The synchronous part of each method: its guard and the store call it    *)
(* issues.  err is what the method hands back at once; with err = Null the *)
(* update is pending at the store.                                         *)

Issued(query, update) == [err |-> Null, query |-> query, update |-> update]

\* `Secretary` and `Messages` are bound nowhere in Post.js or Charity.js:
\* evaluating the argument of callback(...) throws before callback is called
NoAccess == [err |-> "ReferenceError", query |-> NoFields, update |-> NoUpdate]

\* Post.js: authenticatedToken (post, token)
authenticatedTokenPost(post, token) == token.user = post.user

\* Charity.js: authenticatedToken (charity, token)
authenticatedTokenCharity(charity, token) == token.charity = charity.guid

\* User.create, second task of the waterfall
UserCreateUpdate(GUID, input) ==
    Issued([guid |-> GUID],
           [set |-> [guid |-> GUID, name |-> input.name, email |-> input.email,
                     password |-> input.password],
            push |-> NoFields])

\* Charity.create, second task of the waterfall (t: the reading of Dates.now())
CharityCreateUpdate(GUID, input, t) ==
    Issued([guid |-> GUID],
           [set |-> [guid |-> GUID, name |-> input.name,
                     charityToken |-> input.charityToken.guid,
                     dateCreated |-> t],
            push |-> NoFields])

\* Post.create with the query built on a field the document never holds:
\* the upsert matches nothing and always inserts
PostCreateUpdateUnkeyed(GUID, input, t) ==
    Issued([guid |-> Undefined],
           [set |-> [guid |-> GUID, user |-> input.user.guid,
                     campaign |-> input.campaign.guid,
                     category |-> input.campaign.category,
                     charity |-> input.charity.guid, image |-> input.image,
                     shareableImage |-> input.shareableImage,
                     dateCreated |-> t],
            push |-> NoFields])

\* Post.create, second task of the waterfall (t: the reading of Dates.now())
PostCreateUpdate(GUID, input, t) ==
    Issued([guid |-> GUID],
           [set |-> (IF Truthy(input.caption)
                     THEN [caption |-> input.caption] ELSE NoFields)
                    @@ [guid |-> GUID, user |-> input.user.guid,
                        campaign |-> input.campaign.guid,
                        category |-> input.campaign.category,
                        charity |-> input.charity.guid, image |-> input.image,
                        shareableImage |-> input.shareableImage,
                        dateCreated |-> t],
            push |-> NoFields])

CreateUpdate(model, GUID, input, t) ==
    CASE model = "User" -> UserCreateUpdate(GUID, input)
      [] model = "Charity" -> CharityCreateUpdate(GUID, input, t)
      [] model = "Post" -> PostCreateUpdate(GUID, input, t)

\* Post#addDonation writing back the array of the loaded instance
addDonationWriteBack(this, donation) ==
    Issued([guid |-> this.guid],
           [set |-> [donations |-> Append(this.donations, donation.guid)],
            push |-> NoFields])

\* Post#addDonation ({donation})
addDonation(this, donation) ==
    Issued([guid |-> this.guid],
           [set |-> NoFields, push |-> [donations |-> donation.guid]])

\* Post#edit setting the documented, never supplied image parameter as well
PostEditSetsImage(this, token, caption, t) ==
    IF ~(token.user = this.user) THEN NoAccess
    ELSE Issued([guid |-> this.guid],
                [set |-> (IF Truthy(caption) THEN [caption |-> caption] ELSE NoFields)
                         @@ [lastModified |-> t, image |-> Undefined],
                 push |-> NoFields])

\* Post#edit ({token, caption}) (t: the reading of Dates.now())
PostEdit(this, token, caption, t) ==
    IF ~authenticatedTokenPost(this, token) THEN NoAccess
    ELSE Issued([guid |-> this.guid],
                [set |-> (IF Truthy(caption) THEN [caption |-> caption] ELSE NoFields)
                         @@ [lastModified |-> t],
                 push |-> NoFields])

\* Charity#addUser ({user})
addUser(this, user) ==
    Issued([guid |-> this.guid],
           [set |-> NoFields, push |-> [users |-> user.guid]])

\* Charity#addCampaign storing the new reference with $set
addCampaignSetsArray(this, campaign, token) ==
    IF ~authenticatedTokenCharity(this, token) THEN NoAccess
    ELSE Issued([guid |-> this.guid],
                [set |-> [campaigns |-> <<campaign.guid>>], push |-> NoFields])

\* Charity#addCampaign ({campaign, token})
addCampaign(this, campaign, token) ==
    IF ~authenticatedTokenCharity(this, token) THEN NoAccess
    ELSE Issued([guid |-> this.guid],
                [set |-> NoFields, push |-> [campaigns |-> campaign.guid]])

\* Charity#addUpdate ({update, token})
addUpdate(this, update, token) ==
    IF ~authenticatedTokenCharity(this, token) THEN NoAccess
    ELSE Issued([guid |-> this.guid],
                [set |-> NoFields, push |-> [updates |-> update.guid]])

\* Charity#edit ({token, name, description, logo}) (t: the reading of Dates.now())
CharityEdit(this, token, name, description, logo, t) ==
    IF ~authenticatedTokenCharity(this, token) THEN NoAccess
    ELSE Issued([guid |-> this.guid],
                [set |-> (IF Truthy(name) THEN [name |-> name] ELSE NoFields)
                         @@ (IF Truthy(description)
                             THEN [description |-> description] ELSE NoFields)
                         @@ (IF Truthy(logo) THEN [logo |-> logo] ELSE NoFields)
                         @@ [lastModified |-> t],
                 push |-> NoFields])

----------------------------------------------------------------------------
(* Clients *)

AppendOps == {"addDonation", "addUser", "addCampaign", "addUpdate"}

\* the array field an append operation pushes to
AppendField(op) ==
    CASE op = "addDonation" -> "donations"
      [] op = "addUser" -> "users"
      [] op = "addCampaign" -> "campaigns"
      [] op = "addUpdate" -> "updates"

PushKeys ==
    {<<"Post", g, "donations">> : g \in Guids}
       \cup {<<"Charity", g, f>> : g \in Guids, f \in {"users", "campaigns", "updates"}}

\* a client with no call in progress.  pc: idle, guid (GUID's findOne is
\* pending), update (Database.update is pending), done (the callback ran or
\* the call threw).  this: the fields of the instance the method reads.
\* input: the arguments of create or edit.
\* prior: the ids GUID had handed out when this call of GUID began.
\* overlap: another append to the same array was pending when this one began.
\* err, ret: the error and the guid of the document handed to the callback.
\* raised: the error a store call of this method call ended with, if any.
Idle ==
    [pc |-> "idle", op |-> "none", model |-> "none", GUID |-> Undefined,
     prior |-> {}, input |-> NoFields, this |-> NoFields, token |-> NoFields,
     child |-> Undefined, query |-> NoFields, update |-> NoUpdate,
     err |-> Null, ret |-> Undefined, overlap |-> FALSE, raised |-> Null]

\* A client makes its next call when its last one has ended, whatever the
\* other client is in the middle of.  Bounds: MaxOps calls in a behaviour;
\* clients are interchangeable, p1 is the one that calls first.
CanCall(p) ==
    /\ proc[p].pc \in {"idle", "done"}
    /\ p = "p1" \/ proc["p1"].pc # "idle"
    /\ nops < MaxOps

\* the ids GUID has returned for `model` to the calls still on record
Returned(model) ==
    {proc[q].GUID : q \in {r \in Procs : /\ proc[r].op = "create"
                                         /\ proc[r].model = model
                                         /\ proc[r].pc = "update"}}
       \cup {proc[q].ret : q \in {r \in Procs : /\ proc[r].op = "create"
                                                /\ proc[r].model = model
                                                /\ proc[r].pc = "done"}}

\* the document a create of `model` writes into an empty collection
Created(model, GUID, input, t) ==
    LET call == CreateUpdate(model, GUID, input, t) IN
    Upsert(<<>>, model, call.query, call.update)

\* what earlier creates left in the store at time 1: guid g1 of every model
Seeded == [m \in Models |-> Created(m, "g1", SeedInput[m], 1)]

\* the server starts on an empty store or on one that earlier creates filled
Init ==
    /\ db \in {[m \in Models |-> <<>>], Seeded}
    /\ now = 1
    /\ proc = [p \in Procs |-> Idle]
    /\ pushed = [k \in PushKeys |-> <<>>]
    /\ nops = 0

\* <Model>.create: the first task of the waterfall calls Model.GUID, which
\* draws Uuid.v4() and issues findOne
create(p, model, input) ==
    /\ CanCall(p)
    /\ \E g \in Guids :
          proc' = [proc EXCEPT ![p] =
                      [Idle EXCEPT !.pc = "guid", !.op = "create", !.model = model,
                                   !.input = input, !.GUID = g,
                                   !.prior = Returned(model)]]
    /\ nops' = nops + 1
    /\ UNCHANGED <<db, now, pushed>>

\* the models whose create stamps dateCreated with Dates.now()
StampsDateCreated(model) == model \in {"Charity", "Post"}

UserCreate(p) == \E input \in UserInputs : create(p, "User", input)

CharityCreate(p) == \E input \in CharityInputs : create(p, "Charity", input)

PostCreate(p) == \E input \in PostInputs : create(p, "Post", input)

\* GUID calling back with its candidate whatever findOne answered
GUIDUnconfirmed(p) ==
    /\ proc[p].pc = "guid"
    /\ IF StampsDateCreated(proc[p].model) THEN Clock ELSE now' = now
    /\ LET call == CreateUpdate(proc[p].model, proc[p].GUID, proc[p].input,
                                DatesNow) IN
       proc' = [proc EXCEPT ![p].pc = "update", ![p].query = call.query,
                            ![p].update = call.update]
    /\ UNCHANGED <<db, pushed, nops>>

\* GUID looking its candidate up again when an object exists
GUIDKeepsCandidate(p) ==
    /\ proc[p].pc = "guid"
    /\ IF Found(proc[p].model, [guid |-> proc[p].GUID])
       THEN /\ now' = now
            /\ proc' = proc
       ELSE /\ IF StampsDateCreated(proc[p].model) THEN Clock ELSE now' = now
            /\ LET call == CreateUpdate(proc[p].model, proc[p].GUID, proc[p].input,
                                         DatesNow) IN
               proc' = [proc EXCEPT ![p].pc = "update", ![p].query = call.query,
                                    ![p].update = call.update]
    /\ UNCHANGED <<db, pushed, nops>>

\* Object.js GUID: the answer of findOne.  An object exists: GUID is called
\* again (a new Uuid.v4(), a new findOne).  Otherwise callback(err, GUID),
\* and the second task of the waterfall issues Database.update.
GUID(p) ==
    /\ proc[p].pc = "guid"
    /\ IF Found(proc[p].model, [guid |-> proc[p].GUID])
       THEN /\ now' = now
            /\ \E g \in Guids : proc' = [proc EXCEPT ![p].GUID = g]
       ELSE /\ IF StampsDateCreated(proc[p].model) THEN Clock ELSE now' = now
            /\ LET call == CreateUpdate(proc[p].model, proc[p].GUID, proc[p].input,
                                         DatesNow) IN
               proc' = [proc EXCEPT ![p].pc = "update", ![p].query = call.query,
                                    ![p].update = call.update]
    /\ UNCHANGED <<db, pushed, nops>>

\* an instance method runs its synchronous part on the loaded document `this`
Method(p, op, model, this, token, args, child, reads, call) ==
    /\ CanCall(p)
    /\ IF reads THEN Clock ELSE now' = now
    /\ proc' = [proc EXCEPT ![p] =
          [Idle EXCEPT
             !.pc = IF call.err = Null THEN "update" ELSE "done",
             !.op = op, !.model = model,
             !.this = [guid |-> this.guid,
                       user |-> IF model = "Post" THEN this.user ELSE Undefined],
             !.token = token, !.input = args, !.child = child,
             !.query = call.query, !.update = call.update, !.err = call.err,
             !.overlap = \E q \in Procs \ {p} :
                            /\ proc[q].pc = "update"
                            /\ proc[q].op = op
                            /\ op \in AppendOps
                            /\ proc[q].this.guid = this.guid]]
    /\ nops' = nops + 1
    /\ UNCHANGED <<db, pushed>>

\* the routing layer holds the caller's token; addDonation is not given it
PostAddDonation(p) ==
    \E this \in Instances("Post"), donation \in Children, token \in Tokens :
       Method(p, "addDonation", "Post", this, token, NoFields, donation.guid, FALSE,
              addDonation(this, donation))

PostEditCall(p) ==
    \E this \in Instances("Post"), token \in Tokens, caption \in Captions :
       Method(p, "edit", "Post", this, token, [caption |-> caption], Undefined,
              authenticatedTokenPost(this, token), PostEdit(this, token, caption, DatesNow))

CharityAddUser(p) ==
    \E this \in Instances("Charity"), user \in Children :
       Method(p, "addUser", "Charity", this, NoFields, NoFields, user.guid, FALSE,
              addUser(this, user))

CharityAddCampaign(p) ==
    \E this \in Instances("Charity"), campaign \in Children, token \in Tokens :
       Method(p, "addCampaign", "Charity", this, token, NoFields, campaign.guid, FALSE,
              addCampaign(this, campaign, token))

CharityAddUpdate(p) ==
    \E this \in Instances("Charity"), update \in Children, token \in Tokens :
       Method(p, "addUpdate", "Charity", this, token, NoFields, update.guid, FALSE,
              addUpdate(this, update, token))

CharityEditCall(p) ==
    \E this \in Instances("Charity"), token \in Tokens, e \in CharityEdits :
       Method(p, "edit", "Charity", this, token, e, Undefined,
              authenticatedTokenCharity(this, token), CharityEdit(this, token, e.name, e.description, e.logo, DatesNow))

\* Database.update: the store applies the pending update to one document,
\* atomically, and the callback hands the result back
DatabaseUpdate(p) ==
    /\ proc[p].pc = "update"
    /\ db' = [db EXCEPT ![proc[p].model] =
                 Upsert(@, proc[p].model, proc[p].query, proc[p].update)]
    /\ pushed' = IF proc[p].op \in AppendOps
                 THEN [pushed EXCEPT
                         ![<<proc[p].model, proc[p].this.guid,
                             AppendField(proc[p].op)>>] = Append(@, proc[p].child)]
                 ELSE pushed
    /\ proc' = [proc EXCEPT ![p] =
                    [Idle EXCEPT !.pc = "done", !.op = proc[p].op,
                                 !.model = proc[p].model, !.err = Null,
                                 !.ret = proc[p].query.guid,
                                 !.input = proc[p].input,
                                 !.overlap = proc[p].overlap]]
    /\ UNCHANGED <<now, nops>>

Next ==
    \E p \in Procs :
          \/ UserCreate(p)
          \/ CharityCreate(p)
          \/ PostCreate(p)
          \/ GUID(p)
          \/ PostAddDonation(p)
          \/ PostEditCall(p)
          \/ CharityAddUser(p)
          \/ CharityAddCampaign(p)
          \/ CharityAddUpdate(p)
          \/ CharityEditCall(p)
          \/ DatabaseUpdate(p)

Spec == Init /\ [][Next]_vars

----------------------------------------------------------------------------
(* Vocabulary of the properties *)

\* the step in which client p calls a method
Called(p) ==
    /\ nops' = nops + 1
    /\ proc[p].pc \in {"idle", "done"}
    /\ proc'[p].pc # "idle"
    /\ \A q \in Procs \ {p} : proc'[q] = proc[q]

\* the step in which the store applies the update of client p
Applied(p) == proc[p].pc = "update" /\ proc'[p].pc = "done"

\* the call in frame r is an ownership-guarded mutation whose token does not
\* match the entity
Denied(r) ==
    /\ r.op \in {"edit", "addCampaign", "addUpdate"}
    /\ \/ r.model = "Post" /\ r.token.user # r.this.user
       \/ r.model = "Charity" /\ r.token.charity # r.this.guid

\* place of the document the pending update of p is keyed to, 0 when none
Target(p) == FindIndex(db[proc[p].model], proc[p].query)

\* number of occurrences of c in the sequence arr
Count(arr, c) == Cardinality({i \in 1..Len(arr) : arr[i] = c})

----------------------------------------------------------------------------
(* C1..C10 *)

\* C1: every ownership-guarded mutation (Post.edit, Charity.edit,
\* Charity.addCampaign, Charity.addUpdate) called with a token that does not
\* match the entity returns an authorization error, and the store is the
\* same before and after the call.
C1_DeniedMutationReturnsAuthorizationError ==
    [][\A p \in Procs :
          (Called(p) /\ Denied(proc'[p]))
             => /\ proc'[p].pc = "done"
                /\ proc'[p].err = "AuthorizationError"
                /\ db' = db]_vars

\* C2: Post.addDonation called for a caller whose token does not satisfy
\* token.user == post.user returns an authorization error, and the post's
\* donations list stays as it was.
C2_AddDonationChecksOwnership ==
    [][\A p \in Procs :
          /\ (Called(p) /\ proc'[p].op = "addDonation"
                /\ ~authenticatedTokenPost(proc'[p].this, proc'[p].token))
                => (proc'[p].pc = "done" /\ proc'[p].err = "AuthorizationError")
          /\ (Applied(p) /\ proc[p].op = "addDonation"
                /\ ~authenticatedTokenPost(proc[p].this, proc[p].token))
                => db'.Post = db.Post]_vars

\* C3: no append is lost.  In every interleaving every array field holds
\* exactly the child ids whose append was applied to it, each as many times
\* as it was appended: two concurrent appends of distinct ids to an empty
\* array leave an array of length 2 holding both.
C3_AppendsAreNotLost ==
    \A m \in {"Charity", "Post"} : \A i \in 1..Len(db[m]) :
       \A f \in ArrayFields(m) :
          LET arr == db[m][i][f]
              log == pushed[<<m, db[m][i].guid, f>>]
          IN /\ Len(arr) = Len(log)
             /\ \A c \in {log[k] : k \in 1..Len(log)} : Count(arr, c) = Count(log, c)

\* two appends of distinct ids to the same empty array overlapped, both were
\* applied, and the array holds the two ids
C3_Witness ==
    \E p \in Procs, q \in Procs :
       /\ p # q
       /\ proc[p].pc = "done" /\ proc[q].pc = "done"
       /\ proc[p].op \in AppendOps /\ proc[q].op = proc[p].op
       /\ proc[p].ret = proc[q].ret
       /\ proc[q].overlap
       /\ proc[p].err = Null /\ proc[q].err = Null
       /\ LET arr == findOne(proc[p].model, [guid |-> proc[p].ret])[AppendField(proc[p].op)]
          IN Len(arr) = 2 /\ arr[1] # arr[2]

\* C4: two concurrent create calls of one model for different entities never
\* write the same document: once both have completed, each has its own
\* document.
C4_ConcurrentCreatesNeverConflict ==
    \A p \in Procs, q \in Procs :
       (/\ p # q
        /\ proc[p].pc = "done" /\ proc[q].pc = "done"
        /\ proc[p].op = "create" /\ proc[q].op = "create"
        /\ proc[p].model = proc[q].model
        /\ proc[p].input # proc[q].input)
          => proc[p].ret # proc[q].ret

\* C5: the identifiers returned by GUID calls made one after another on one
\* collection, with any or no writes in between, are pairwise distinct: an
\* identifier GUID returns was not returned by a call that ended before this
\* one began.
C5_SequentialGuidsAreDistinct ==
    \A p \in Procs :
       (proc[p].op = "create" /\ proc[p].pc = "update")
          => proc[p].GUID \notin proc[p].prior

\* C6: each successful create adds exactly one document to its collection and
\* overwrites none that an earlier create wrote.
C6_CreateAddsOneDocument ==
    [][\A p \in Procs :
          (Applied(p) /\ proc[p].op = "create" /\ proc'[p].err = Null)
             => LET m == proc[p].model IN
                /\ Len(db'[m]) = Len(db[m]) + 1
                /\ \A i \in 1..Len(db[m]) : db'[m][i] = db[m][i]]_vars

\* C7: in every reachable state no two documents of one collection have the
\* same guid.
C7_GuidUniqueInCollection ==
    \A m \in Models : \A i \in 1..Len(db[m]), j \in 1..Len(db[m]) :
       i # j => db[m][i].guid # db[m][j].guid

\* two creates of one model have completed and the collection holds several
\* documents
C7_Witness ==
    \E p \in Procs, q \in Procs :
       /\ p # q
       /\ proc[p].pc = "done" /\ proc[q].pc = "done"
       /\ proc[p].op = "create" /\ proc[q].op = "create"
       /\ proc[p].model = proc[q].model
       /\ Len(db[proc[p].model]) >= 2

\* C8: a successful edit leaves every field that was not supplied as it was
\* (all fields but lastModified and the supplied ones among caption, or
\* name, description, logo), and leaves every other document alone.
C8_EditKeepsUnsuppliedFields ==
    [][\A p \in Procs :
          (Applied(p) /\ proc[p].op = "edit" /\ proc'[p].err = Null /\ Target(p) # 0)
             => LET m == proc[p].model
                    i == Target(p)
                    args == proc[p].input
                IN /\ Len(db'[m]) = Len(db[m])
                   /\ \A j \in 1..Len(db[m]) : j # i => db'[m][j] = db[m][j]
                   /\ \A f \in DOMAIN db[m][i] \ {"lastModified"} :
                         (f \notin DOMAIN args \/ args[f] = Undefined)
                            => db'[m][i][f] = db[m][i][f]]_vars

\* a Post.edit supplying only caption has been applied: the caption is the
\* new one, lastModified is set, and the image is the one create wrote
C8_Witness ==
    \E p \in Procs :
       /\ proc[p].pc = "done" /\ proc[p].op = "edit" /\ proc[p].err = Null
       /\ proc[p].model = "Post"
       /\ LET post == findOne("Post", [guid |-> proc[p].ret])
          IN /\ post.caption = "cap2"
             /\ post.lastModified # NoTime
             /\ post.image = "img1"

\* C9: after every successful edit the document's lastModified is strictly
\* greater than it was before the edit was applied.
C9_EditIncreasesLastModified ==
    [][\A p \in Procs :
          (Applied(p) /\ proc[p].op = "edit" /\ proc'[p].err = Null /\ Target(p) # 0)
             => LET m == proc[p].model
                    i == Target(p)
                IN db'[m][i].lastModified > db[m][i].lastModified]_vars

\* C10: after every successful append (addUser, addCampaign, addUpdate,
\* addDonation) the target document's lastModified is set and is greater
\* than it was before the append.
C10_AppendSetsLastModified ==
    [][\A p \in Procs :
          (Applied(p) /\ proc[p].op \in AppendOps /\ proc'[p].err = Null
             /\ Target(p) # 0)
             => LET m == proc[p].model
                    i == Target(p)
                IN /\ db'[m][i].lastModified # NoTime
                   /\ db'[m][i].lastModified > db[m][i].lastModified]_vars

----------------------------------------------------------------------------
(* Post#format: the composite view of a post.  Three lookups, one after    *)
(* the other (Async.waterfall), each attaching the display fields of the   *)
(* document it finds.                                                      *)

\* the models format reads besides Post
JoinModels == {"Charity", "Campaign", "User"}

\* model/Campaign: the fields format and Post.create read from a campaign
CampaignProperties ==
    [name |-> Undefined, description |-> Undefined, category |-> Undefined]

\* this.toObject(): the plain object holding the fields the document has
\* (a timestamp or a string that is not set is no property of it)
toObject(doc) ==
    LET Absent(f) ==
           IF f \in {"dateCreated", "lastModified"} THEN doc[f] = NoTime
           ELSE IF f \in {"erased", "users", "campaigns", "updates", "donations"}
           THEN FALSE
           ELSE doc[f] = Undefined
    IN [f \in {g \in DOMAIN doc : ~Absent(g)} |-> doc[f]]

\* thisObject.<f>: undefined when the object has no such property
Get(object, f) == IF f \in DOMAIN object THEN object[f] ELSE Undefined

\* Database.findOne as its callback sees it: (err, object), object unset
\* when no document matches
Answer(model, query) ==
    IF Found(model, query)
    THEN [found |-> TRUE, object |-> findOne(model, query)]
    ELSE [found |-> FALSE, object |-> NoFields]

\* what the callback of a findOne that finds nothing or fails receives as
\* its object
NoObject == [found |-> FALSE, object |-> NoFields]

\* the findOne of a task of format.  Charity and Campaign are models.  User
\* is what User.js exports, the function that would build the model, which
\* User.js does not call: the third lookup is given a function where a
\* model is expected, so it searches no collection and hands its callback
\* no object.
LookedUp(model, query) ==
    IF model = "User" THEN NoObject ELSE Answer(model, query)

\* callback of the first lookup: attach charity metadata
AttachCharityMetadata(thisObject, charity) ==
    IF charity.found
    THEN [charityName |-> charity.object.name,
          charityLogo |-> charity.object.logo,
          charityDescription |-> charity.object.description] @@ thisObject
    ELSE thisObject

\* the second callback writing the charity's key (a copied line left as it was)
AttachCampaignMetadataCopied(thisObject, campaign) ==
    IF campaign.found
    THEN [campaignName |-> campaign.object.name,
          charityDescription |-> campaign.object.description] @@ thisObject
    ELSE thisObject

\* callback of the second lookup: attach campaign metadata
AttachCampaignMetadata(thisObject, campaign) ==
    IF campaign.found
    THEN [campaignName |-> campaign.object.name,
          campaignDescription |-> campaign.object.description] @@ thisObject
    ELSE thisObject

\* callback of the third lookup: attach user metadata
AttachUserMetadata(thisObject, user) ==
    IF user.found
    THEN [userName |-> user.object.name] @@ thisObject
    ELSE thisObject

\* the property of thisObject a lookup is keyed by
RefField(model) ==
    CASE model = "Charity" -> "charity"
      [] model = "Campaign" -> "campaign"
      [] model = "User" -> "user"

\* the keys a lookup's callback writes
MetadataFields(model) ==
    CASE model = "Charity" -> {"charityName", "charityLogo", "charityDescription"}
      [] model = "Campaign" -> {"campaignName", "campaignDescription"}
      [] model = "User" -> {"userName"}

Attach(model, thisObject, object) ==
    CASE model = "Charity" -> AttachCharityMetadata(thisObject, object)
      [] model = "Campaign" -> AttachCampaignMetadata(thisObject, object)
      [] model = "User" -> AttachUserMetadata(thisObject, object)

\* one task of the waterfall: findOne keyed by the reference, then its callback
WaterfallTask(model, thisObject) ==
    Attach(model, thisObject,
           LookedUp(model, [guid |-> Get(thisObject, RefField(model))]))

\* a format call in progress.  pc: charity, campaign, user (that lookup is
\* pending), done (callback(err, thisObject) ran, or an exception ended
\* the call: err is then the exception and no callback is made)
FormatFrame(this) ==
    [pc |-> "charity", op |-> "format", model |-> "Post", this |-> this,
     thisObject |-> toObject(this), err |-> Null, raised |-> Null]

\* post.format({req, res}, callback): toObject, then the first findOne is issued
format(p) ==
    /\ CanCall(p)
    /\ \E this \in Instances("Post") :
          proc' = [proc EXCEPT ![p] = FormatFrame(this)]
    /\ nops' = nops + 1
    /\ UNCHANGED <<db, now, pushed>>

\* the charity lookup answers; the campaign lookup is issued
formatCharity(p) ==
    /\ proc[p].op = "format" /\ proc[p].pc = "charity"
    /\ proc' = [proc EXCEPT ![p].thisObject = WaterfallTask("Charity", @),
                            ![p].pc = "campaign"]
    /\ UNCHANGED <<db, now, pushed, nops>>

\* the third task issues Database.findOne with the function User.js
\* exports as its model.  tools/Database takes the call and will call
\* back, or throws at once (a function has no findOne): the exception
\* leaves the waterfall and format makes no callback.
UserLookupIssued(frame) ==
    {[frame EXCEPT !.pc = "user"], [frame EXCEPT !.pc = "done", !.err = TypeError]}

\* the campaign lookup answers; the user lookup is issued
formatCampaign(p) ==
    /\ proc[p].op = "format" /\ proc[p].pc = "campaign"
    /\ \E frame \in UserLookupIssued([proc[p] EXCEPT
                                         !.thisObject = WaterfallTask("Campaign", @)]) :
          proc' = [proc EXCEPT ![p] = frame]
    /\ UNCHANGED <<db, now, pushed, nops>>

\* the user lookup, made without a model, calls back with an error and no
\* object; the callback does not read err and the waterfall ends:
\* callback(err, thisObject) with err unset
formatUser(p) ==
    /\ proc[p].op = "format" /\ proc[p].pc = "user"
    /\ proc' = [proc EXCEPT ![p].thisObject = WaterfallTask("User", @),
                            ![p].pc = "done", ![p].err = Null,
                            ![p].raised = StoreError]
    /\ UNCHANGED <<db, now, pushed, nops>>

\* the seeded charity after its owner's edit of description and logo
EditedCharity ==
    LET charity == Seeded.Charity[1]
        call == CharityEdit(charity, [user |-> "g1", charity |-> "g1"],
                            Undefined, "we help", "logo2", 1)
    IN ApplyUpdate(charity, call.update)

\* a campaign of the seeded charity
SeededCampaign ==
    [ObjectProperties @@ CampaignProperties EXCEPT
        !.guid = "g1", !.name = "Save the seals", !.description = "seals",
        !.category = "animals", !.dateCreated = 1]

\* a collection a post's reference g1 points into: no document, the
\* document, or the document with its erased flag set
Referenced(doc) == {<<>>, <<doc>>, <<[doc EXCEPT !.erased = TRUE]>>}

\* the posts of both input sets: g1 refers to the documents g1, g2 to none
SeededPosts ==
    LET input == CHOOSE i \in PostInputs : i # SeedInput.Post
        call == PostCreateUpdate("g2", input, 1)
    IN Upsert(Seeded.Post, "Post", call.query, call.update)

FormatStores ==
    {[User |-> u, Charity |-> c, Campaign |-> k, Post |-> SeededPosts] :
        u \in Referenced(Seeded.User[1]), c \in Referenced(EditedCharity),
        k \in Referenced(SeededCampaign)}

InitFormat ==
    /\ db \in FormatStores
    /\ now = 1
    /\ proc = [p \in Procs |-> Idle]
    /\ pushed = [k \in PushKeys |-> <<>>]
    /\ nops = 0

NextFormat ==
    \E p \in Procs :
          \/ format(p)
          \/ formatCharity(p)
          \/ formatCampaign(p)
          \/ formatUser(p)

\* read paths only: clients formatting the posts of a store
SpecFormat == InitFormat /\ [][NextFormat]_vars

\* the step in which the format call of client p makes its callback
Formatted(p) == proc[p].op = "format" /\ proc[p].pc = "user" /\ proc'[p].pc = "done"

----------------------------------------------------------------------------
(* C11..C13 *)

\* C11: format on a post whose referenced campaign (charity, user) document
\* exists with erased = true returns no error and a view holding the post's
\* own fields as they are and none of the fields derived from that
\* campaign (charity, user).
C11_ErasedTargetIsNotJoined ==
    [][\A p \in Procs :
          Formatted(p) =>
             LET this == proc[p].this
                 view == proc'[p].thisObject
             IN \A m \in JoinModels :
                   LET query == [guid |-> Get(toObject(this), RefField(m))] IN
                   (Found(m, query) /\ findOne(m, query).erased)
                      => /\ proc'[p].err = Null
                         /\ \A f \in DOMAIN toObject(this) : view[f] = this[f]
                         /\ MetadataFields(m) \cap DOMAIN view = {}]_vars

\* C12: format never fails because a join target is missing.  Whatever
\* subset of the post's charity, campaign and user references resolves to
\* no document, format returns no error, the view holds all of the post's
\* own fields, the whitelisted fields of every resolved reference and no
\* field of an unresolved one; and no step of format writes to the store.
C12_MissingTargetsAreOmitted ==
    [][/\ db' = db
       /\ \A p \in Procs :
             (proc[p].op = "format" /\ proc[p].pc # "done" /\ proc'[p].pc = "done")
                => proc'[p].err = Null
       /\ \A p \in Procs :
             Formatted(p) =>
                LET this == proc[p].this
                    view == proc'[p].thisObject
                    Ref(m) == Answer(m, [guid |-> Get(toObject(this), RefField(m))])
                IN /\ proc'[p].err = Null
                   /\ \A f \in DOMAIN toObject(this) : view[f] = this[f]
                   /\ \A m \in JoinModels :
                         ~Ref(m).found => MetadataFields(m) \cap DOMAIN view = {}
                   /\ Ref("Charity").found
                         => /\ MetadataFields("Charity") \subseteq DOMAIN view
                            /\ view.charityName = Ref("Charity").object.name
                            /\ view.charityLogo = Ref("Charity").object.logo
                            /\ view.charityDescription = Ref("Charity").object.description
                   /\ Ref("Campaign").found
                         => /\ MetadataFields("Campaign") \subseteq DOMAIN view
                            /\ view.campaignName = Ref("Campaign").object.name
                            /\ view.campaignDescription
                                  = Ref("Campaign").object.description
                   /\ Ref("User").found
                         => /\ MetadataFields("User") \subseteq DOMAIN view
                            /\ view.userName = Ref("User").object.name]_vars

\* the orders in which the three lookups can be made
Orders ==
    {o \in [1..3 -> JoinModels] : \A i \in 1..3, j \in 1..3 : i # j => o[i] # o[j]}

\* the view when the three tasks run one after the other in order o
InOrder(this, o) ==
    WaterfallTask(o[3], WaterfallTask(o[2], WaterfallTask(o[1], toObject(this))))

\* the view when the three lookups are issued together from the post's own
\* fields and their callbacks run in order o
Interleaved(this, o) ==
    LET answer(m) == LookedUp(m, [guid |-> Get(toObject(this), RefField(m))])
    IN Attach(o[3], Attach(o[2], Attach(o[1], toObject(this), answer(o[1])),
                           answer(o[2])), answer(o[3]))

\* C13: the view format returns does not depend on the order of the three
\* lookups.  On the same store, running the tasks in any order, or issuing
\* the lookups together and running their callbacks in any order, gives
\* the view the charity, campaign, user sequence of the code returns.
C13_ViewIndependentOfLookupOrder ==
    \A p \in Procs :
       (proc[p].op = "format" /\ proc[p].pc = "done" /\ proc[p].err = Null)
          => \A o \in Orders :
                /\ InOrder(proc[p].this, o) = proc[p].thisObject
                /\ Interleaved(proc[p].this, o) = proc[p].thisObject

\* a format call has made its callback for a post whose charity and
\* campaign are stored: the view holds the fields of both
C13_Witness ==
    \E p \in Procs :
       /\ proc[p].op = "format" /\ proc[p].pc = "done" /\ proc[p].err = Null
       /\ \A m \in {"Charity", "Campaign"} :
             MetadataFields(m) \subseteq DOMAIN proc[p].thisObject
       /\ proc[p].thisObject.charityDescription # proc[p].thisObject.campaignDescription

----------------------------------------------------------------------------
(* C14..C16 *)

\* C14: the array reference fields (charity.users, charity.campaigns,
\* charity.updates, post.donations) are append-only.  In every step each
\* array of each document keeps its value as a prefix of its new value, so
\* nothing is removed, reordered or replaced between any two states; and
\* an append that is applied puts its id at the end, so the ids of appends
\* made one after the other stand in call order.
C14_ArraysAreAppendOnly ==
    [][\A m \in {"Charity", "Post"} : \A i \in 1..Len(db[m]) :
          \A f \in ArrayFields(m) :
             LET old == db[m][i][f]
                 new == db'[m][i][f]
             IN /\ Len(new) >= Len(old)
                /\ SubSeq(new, 1, Len(old)) = old
                /\ \A p \in Procs :
                      (/\ Applied(p) /\ proc[p].op \in AppendOps
                       /\ proc[p].model = m /\ Target(p) = i
                       /\ AppendField(proc[p].op) = f)
                         => new = Append(old, proc[p].child)]_vars

\* two appends of distinct ids to the same array were made one after the
\* other (neither began while the other was pending) and the array holds
\* the two ids in the order they were applied
C14_Witness ==
    \E p \in Procs, q \in Procs :
       /\ p # q
       /\ proc[p].pc = "done" /\ proc[q].pc = "done"
       /\ proc[p].op \in AppendOps /\ proc[q].op = proc[p].op
       /\ proc[p].ret = proc[q].ret
       /\ proc[p].err = Null /\ proc[q].err = Null
       /\ ~proc[p].overlap /\ ~proc[q].overlap
       /\ LET arr == findOne(proc[p].model, [guid |-> proc[p].ret])[AppendField(proc[p].op)]
          IN /\ Len(arr) = 2 /\ arr[1] # arr[2]
             /\ arr = pushed[<<proc[p].model, proc[p].ret, AppendField(proc[p].op)>>]

\* the fields a create of `model` must store, with the values its input gives
Required(model, input) ==
    CASE model = "User" -> [name |-> input.name, email |-> input.email,
                            password |-> input.password]
      [] model = "Charity" -> [name |-> input.name,
                               charityToken |-> input.charityToken.guid]
      [] model = "Post" -> [user |-> input.user.guid, campaign |-> input.campaign.guid,
                            charity |-> input.charity.guid, image |-> input.image,
                            shareableImage |-> input.shareableImage]

\* C15: for every entity type (user, charity, post) the document a
\* successful create writes holds dateCreated set to the creation time (a
\* reading of the clock, none later than the write), the id GUID handed
\* out, and every required field of the input.
C15_CreateStampsDateCreated ==
    [][\A p \in Procs :
          (Applied(p) /\ proc[p].op = "create" /\ proc'[p].err = Null)
             => LET m == proc[p].model
                    doc == db'[m][FindIndex(db'[m], [guid |-> proc[p].GUID])]
                    fields == Required(m, proc[p].input)
                IN /\ doc.guid = proc[p].GUID
                   /\ \A f \in DOMAIN fields : doc[f] = fields[f]
                   /\ doc.dateCreated # NoTime
                   /\ doc.dateCreated <= now']_vars

\* C16: dateCreated is set exactly once.  Once a document holds the
\* dateCreated its create wrote, no step (edit, append, another create,
\* concurrent or not) changes that document's dateCreated or its guid.
C16_DateCreatedSetOnce ==
    [][\A m \in Models : \A i \in 1..Len(db[m]) :
          /\ db'[m][i].guid = db[m][i].guid
          /\ db[m][i].dateCreated # NoTime
                => db'[m][i].dateCreated = db[m][i].dateCreated]_vars

----------------------------------------------------------------------------
(* Instance methods called on an instance whose guid no stored document    *)
(* has: one built with `new Model(...)` and not saved, or one whose        *)
(* document has gone from the store.                                       *)

\* the instances of `model` with an owner and a guid the collection lacks
Unsaved(model) ==
    {[Schema(model) @@ [user |-> Undefined] EXCEPT !.guid = g, !.user = "g1"] :
        g \in {h \in Guids : ~Found(model, [guid |-> h])}}

PostAddDonationUnsaved(p) ==
    \E this \in Unsaved("Post"), donation \in Children, token \in Tokens :
       Method(p, "addDonation", "Post", this, token, NoFields, donation.guid, FALSE,
              addDonation(this, donation))

PostEditUnsaved(p) ==
    \E this \in Unsaved("Post"), token \in Tokens, caption \in Captions :
       Method(p, "edit", "Post", this, token, [caption |-> caption], Undefined,
              authenticatedTokenPost(this, token),
              PostEdit(this, token, caption, DatesNow))

CharityAddUserUnsaved(p) ==
    \E this \in Unsaved("Charity"), user \in Children :
       Method(p, "addUser", "Charity", this, NoFields, NoFields, user.guid, FALSE,
              addUser(this, user))

CharityAddCampaignUnsaved(p) ==
    \E this \in Unsaved("Charity"), campaign \in Children, token \in Tokens :
       Method(p, "addCampaign", "Charity", this, token, NoFields, campaign.guid,
              FALSE, addCampaign(this, campaign, token))

CharityAddUpdateUnsaved(p) ==
    \E this \in Unsaved("Charity"), update \in Children, token \in Tokens :
       Method(p, "addUpdate", "Charity", this, token, NoFields, update.guid, FALSE,
              addUpdate(this, update, token))

CharityEditUnsaved(p) ==
    \E this \in Unsaved("Charity"), token \in Tokens, e \in CharityEdits :
       Method(p, "edit", "Charity", this, token, e, Undefined,
              authenticatedTokenCharity(this, token),
              CharityEdit(this, token, e.name, e.description, e.logo, DatesNow))

NextUnsaved ==
    \E p \in Procs :
          \/ PostAddDonationUnsaved(p)
          \/ PostEditUnsaved(p)
          \/ CharityAddUserUnsaved(p)
          \/ CharityAddCampaignUnsaved(p)
          \/ CharityAddUpdateUnsaved(p)
          \/ CharityEditUnsaved(p)
          \/ DatabaseUpdate(p)

\* edits and appends on instances the store does not hold
SpecUnsaved == Init /\ [][NextUnsaved]_vars

\* C17: an edit or append on an entity whose id matches no stored document
\* returns a NotFoundError and creates no document: no edit and no append
\* increases the number of documents of a collection.
C17_EditOfMissingIdCreatesNothing ==
    [][\A p \in Procs :
          (Applied(p) /\ proc[p].op \in AppendOps \cup {"edit"})
             => /\ Len(db'[proc[p].model]) = Len(db[proc[p].model])
                /\ Target(p) = 0 => proc'[p].err = "NotFoundError"]_vars

----------------------------------------------------------------------------
(* Store calls that fail: the store hands (err, undefined) to the callback *)
(* of Database.findOne or Database.update and writes nothing.              *)

\* Object.js GUID: findOne fails.  No object: callback(err, GUID); the first
\* task of create passes (err, GUID) on and the waterfall ends with create's
\* callback(err, GUID): the candidate id stands where the document would
GUIDFails(p) ==
    /\ proc[p].pc = "guid"
    /\ proc' = [proc EXCEPT ![p] =
                    [Idle EXCEPT !.pc = "done", !.op = proc[p].op,
                                 !.model = proc[p].model, !.input = proc[p].input,
                                 !.err = StoreError, !.ret = proc[p].GUID,
                                 !.raised = StoreError]]
    /\ UNCHANGED <<db, now, pushed, nops>>

\* Database.update fails: the callback of create, edit or append passes
\* (err, undefined) on
DatabaseUpdateFails(p) ==
    /\ proc[p].pc = "update"
    /\ proc' = [proc EXCEPT ![p] =
                    [Idle EXCEPT !.pc = "done", !.op = proc[p].op,
                                 !.model = proc[p].model,
                                 !.input = proc[p].input,
                                 !.err = StoreError, !.raised = StoreError,
                                 !.overlap = proc[p].overlap]]
    /\ UNCHANGED <<db, now, pushed, nops>>

\* the charity or the campaign findOne of format fails: its callback is
\* given no object, does not read err and calls callback(); the next task
\* runs (formatUser is the answer of the third lookup)
formatLookupFails(p) ==
    /\ proc[p].op = "format"
    /\ \/ /\ proc[p].pc = "charity"
          /\ proc' = [proc EXCEPT
                         ![p].thisObject = Attach("Charity", @, NoObject),
                         ![p].pc = "campaign", ![p].raised = StoreError]
       \/ /\ proc[p].pc = "campaign"
          /\ \E frame \in UserLookupIssued([proc[p] EXCEPT
                               !.thisObject = Attach("Campaign", @, NoObject),
                               !.raised = StoreError]) :
                proc' = [proc EXCEPT ![p] = frame]
    /\ UNCHANGED <<db, now, pushed, nops>>

\* a store in which the seeded post's references resolve
FaultStore ==
    [User |-> Seeded.User, Charity |-> <<EditedCharity>>,
     Campaign |-> <<SeededCampaign>>, Post |-> Seeded.Post]

InitFaults ==
    /\ db = FaultStore
    /\ now = 1
    /\ proc = [p \in Procs |-> Idle]
    /\ pushed = [k \in PushKeys |-> <<>>]
    /\ nops = 0

NextFaults ==
    \E p \in Procs :
          \/ UserCreate(p)
          \/ CharityCreate(p)
          \/ PostCreate(p)
          \/ GUID(p)
          \/ GUIDFails(p)
          \/ PostAddDonation(p)
          \/ PostEditCall(p)
          \/ CharityAddUser(p)
          \/ CharityAddCampaign(p)
          \/ CharityAddUpdate(p)
          \/ CharityEditCall(p)
          \/ DatabaseUpdate(p)
          \/ DatabaseUpdateFails(p)
          \/ format(p)
          \/ formatCharity(p)
          \/ formatCampaign(p)
          \/ formatUser(p)
          \/ formatLookupFails(p)

\* every method of the core, with store calls that may fail
SpecFaults == InitFaults /\ [][NextFaults]_vars

\* C18: a store error raised by a store call of an operation (the lookup of
\* GUID, the update of create, edit or append, the three lookups of format)
\* is that operation's error result, unchanged.  The operation ends with it
\* at once, making no further store call, and the failing call writes
\* nothing, so a create whose GUID lookup fails writes no document.
C18_StoreErrorIsReturned ==
    [][\A p \in Procs :
          (proc[p].pc \notin {"idle", "done"} /\ proc[p].raised = Null
             /\ proc'[p].raised # Null)
             => /\ proc'[p].pc = "done"
                /\ proc'[p].err = proc'[p].raised
                /\ db' = db]_vars

----------------------------------------------------------------------------
(* tools/Validation: the field validators.  A JavaScript value is a record *)
(* [type, str, num, nan]; a string value is the sequence of its characters, *)
(* a number is an integer or NaN.                                          *)

\* the number of characters of the longest generated password input
MaxLen == 9

JsNull == [type |-> "null", str |-> <<>>, num |-> 0, nan |-> FALSE]
JsUndefined == [type |-> "undefined", str |-> <<>>, num |-> 0, nan |-> FALSE]
JsString(s) == [type |-> "string", str |-> s, num |-> 0, nan |-> FALSE]
JsNumber(n) == [type |-> "number", str |-> <<>>, num |-> n, nan |-> FALSE]
JsBoolean(b) ==
    [type |-> "boolean", str |-> <<>>, num |-> IF b THEN 1 ELSE 0, nan |-> FALSE]
\* NaN: typeof NaN is 'number'
JsNaN == [type |-> "number", str |-> <<>>, num |-> 0, nan |-> TRUE]

LowerCase ==
    {"a", "b", "c", "d", "e", "f", "g", "h", "i", "j", "k", "l", "m", "n",
     "o", "p", "q", "r", "s", "t", "u", "v", "w", "x", "y", "z"}

UpperCase ==
    {"A", "B", "C", "D", "E", "F", "G", "H", "I", "J", "K", "L", "M", "N",
     "O", "P", "Q", "R", "S", "T", "U", "V", "W", "X", "Y", "Z"}

DigitChars == <<"0", "1", "2", "3", "4", "5", "6", "7", "8", "9">>

\* /\d/
Digit == {DigitChars[i] : i \in 1..10}

\* /[a-zA-Z]/
Letter == LowerCase \cup UpperCase

\* /\w/
Word == Letter \cup Digit \cup {"_"}

\* String(n) of a non-negative integer
RECURSIVE Decimal(_)
Decimal(n) ==
    IF n < 10 THEN <<DigitChars[n + 1]>>
    ELSE Decimal(n \div 10) \o <<DigitChars[(n % 10) + 1]>>

\* String(input): what RegExp.test matches a value of any type against
JsToString(input) ==
    CASE input.type = "string" -> input.str
      [] input.type = "null" -> <<"n", "u", "l", "l">>
      [] input.type = "undefined" -> <<"u", "n", "d", "e", "f", "i", "n", "e", "d">>
      [] input.type = "boolean" ->
            IF input.num = 1 THEN <<"t", "r", "u", "e">>
            ELSE <<"f", "a", "l", "s", "e">>
      [] input.type = "number" ->
            IF input.nan THEN <<"N", "a", "N">>
            ELSE IF input.num < 0 THEN <<"-">> \o Decimal(0 - input.num)
            ELSE Decimal(input.num)

\* the value of a string of decimal digits
RECURSIVE DecimalValue(_)
DecimalValue(s) ==
    IF s = <<>> THEN 0
    ELSE LET DigitValue(c) == (CHOOSE i \in 1..10 : DigitChars[i] = c) - 1
         IN 10 * DecimalValue(SubSeq(s, 1, Len(s) - 1)) + DigitValue(s[Len(s)])

\* Number(input), the operand of a relational comparison: nan for NaN, undefined
\* and for a string that is no numeral ("" is 0).  The strings given to the
\* validators here are empty, decimal digits only, or no numeral at all.
JsToNumber(input) ==
    CASE input.type = "number" -> [nan |-> input.nan, val |-> input.num]
      [] input.type = "boolean" -> [nan |-> FALSE, val |-> input.num]
      [] input.type = "null" -> [nan |-> FALSE, val |-> 0]
      [] input.type = "undefined" -> [nan |-> TRUE, val |-> 0]
      [] input.type = "string" ->
            IF \A i \in 1..Len(input.str) : input.str[i] \in Digit
            THEN [nan |-> FALSE, val |-> DecimalValue(input.str)]
            ELSE [nan |-> TRUE, val |-> 0]

\* tools/Messages: the texts of the errors, by the property Validation reads
Messages ==
    [fieldErrors |->
        [missing |-> " {fieldErrors.missing}",
         isInvalid |-> " {fieldErrors.isInvalid}",
         passwordLetter |-> " {fieldErrors.passwordLetter}",
         passwordNumber |-> " {fieldErrors.passwordNumber}",
         sortKey |-> " {fieldErrors.sortKey}",
         invalidImageURL |-> " {fieldErrors.invalidImageURL}",
         invalidCategoryType |-> " {fieldErrors.invalidCategoryType}",
         invalidObjectType |-> " {fieldErrors.invalidObjectType}"],
     typeErrors |->
        [string |-> " {typeErrors.string}",
         emptyString |-> " {typeErrors.emptyString}",
         number |-> " {typeErrors.number}"]]

\* tools/Types: the campaign categories
Types ==
    [categories |-> {<<"a", "n", "i", "m", "a", "l", "s">>,
                     <<"h", "e", "a", "l", "t", "h">>}]

\* `if (error)`: a non-empty error message
IsError(error) == error \notin {Null, ""}

\* getErrorsFromArray returning the last error of the array
getErrorsFromArrayLast(errors) ==
    IF \E i \in 1..Len(errors) : IsError(errors[i])
    THEN errors[CHOOSE i \in 1..Len(errors) :
                   /\ IsError(errors[i])
                   /\ \A j \in (i + 1)..Len(errors) : ~IsError(errors[j])]
    ELSE Null

\* getErrorsFromArray (errors): the first error of the array, or null
getErrorsFromArray(errors) ==
    IF \E i \in 1..Len(errors) : IsError(errors[i])
    THEN errors[CHOOSE i \in 1..Len(errors) :
                   /\ IsError(errors[i])
                   /\ \A j \in 1..(i - 1) : ~IsError(errors[j])]
    ELSE Null

\* getNamedErrorFromArray (errors, name)
getNamedErrorFromArray(errors, name) ==
    IF IsError(getErrorsFromArray(errors))
    THEN name \o getErrorsFromArray(errors)
    ELSE Null

\* an argument the caller leaves out (undefined, falsy)
Omitted == 0

\* isInvalidString (input)
isInvalidString(input) ==
    IF input.type \in {"null", "undefined"} THEN Messages.fieldErrors.missing
    ELSE IF input.type # "string" THEN Messages.typeErrors.string
    ELSE IF input.str = <<>> THEN Messages.typeErrors.emptyString
    ELSE Null

\* isInvalidNumber (input)
isInvalidNumber(input) ==
    IF input.type = "null" THEN Messages.fieldErrors.missing
    ELSE IF input.type # "number" THEN Messages.typeErrors.number
    ELSE Null

\* isInvalidLength (input, minlength, maxlength).  input.length throws on
\* null and undefined and is undefined on a number or a boolean, which
\* compares false
isInvalidLength(input, minlength, maxlength) ==
    IF minlength # Omitted /\ input.type \in {"null", "undefined"} THEN TypeError
    ELSE IF minlength # Omitted /\ input.type = "string"
              /\ Len(input.str) < minlength
    THEN " must be " \o ToString(minlength) \o " characters"
    ELSE IF maxlength # Omitted /\ input.type \in {"null", "undefined"} THEN TypeError
    ELSE IF maxlength # Omitted /\ input.type = "string"
              /\ Len(input.str) > maxlength
    THEN " must be less than " \o ToString(maxlength) \o " characters"
    ELSE Null

\* isInvalidSize (input, min, max), both limits given; a comparison with
\* NaN is false
isInvalidSize(input, min, max) ==
    LET n == JsToNumber(input) IN
    IF ~n.nan /\ n.val < min THEN " must be greater than " \o ToString(min)
    ELSE IF ~n.nan /\ n.val > max THEN " must be less than " \o ToString(max)
    ELSE Null

\* emailRegExp.test(s), for
\* /^\w+([\.-]?\w+)*@\w+([\.-]?\w+)*(\.\w{2,3})+$/.
\* WordChain: \w+([\.-]?\w+)* on the whole of t.
\* MailDomain: \w+([\.-]?\w+)*(\.\w{2,3})+ on the whole of t.
emailRegExp(s) ==
    LET WordChain(t) ==
           /\ Len(t) > 0
           /\ \A i \in 1..Len(t) : t[i] \in Word \cup {".", "-"}
           /\ t[1] \in Word /\ t[Len(t)] \in Word
           /\ \A i \in 1..(Len(t) - 1) : t[i] \in Word \/ t[i + 1] \in Word
        MailDomain(t) ==
           \E n \in {2, 3} :
              /\ Len(t) >= n + 2
              /\ \A i \in (Len(t) - n + 1)..Len(t) : t[i] \in Word
              /\ t[Len(t) - n] = "."
              /\ WordChain(SubSeq(t, 1, Len(t) - n - 1))
    IN \E i \in 1..Len(s) :
          /\ s[i] = "@"
          /\ WordChain(SubSeq(s, 1, i - 1))
          /\ MailDomain(SubSeq(s, i + 1, Len(s)))

\* isInvalidEmail (input)
isInvalidEmail(input) ==
    IF ~emailRegExp(JsToString(input)) THEN Messages.fieldErrors.isInvalid
    ELSE Null

\* isInvalidPassword testing for the digit first
isInvalidPasswordDigitFirst(input) ==
    IF input.type # "string" THEN TypeError
    ELSE IF \A i \in 1..Len(input.str) : input.str[i] \notin Digit
    THEN Messages.fieldErrors.passwordNumber
    ELSE IF \A i \in 1..Len(input.str) : input.str[i] \notin Letter
    THEN Messages.fieldErrors.passwordLetter
    ELSE Null

\* isInvalidPassword (input).  input.search throws on every value that is
\* not a string
isInvalidPassword(input) ==
    IF input.type # "string" THEN TypeError
    ELSE IF \A i \in 1..Len(input.str) : input.str[i] \notin Letter
    THEN Messages.fieldErrors.passwordLetter
    ELSE IF \A i \in 1..Len(input.str) : input.str[i] \notin Digit
    THEN Messages.fieldErrors.passwordNumber
    ELSE Null

\* isInvalidSort (input)
isInvalidSort(input) ==
    IF input.type = "string" /\ input.str \in {<<"a", "s", "c">>, <<"d", "e", "s", "c">>}
    THEN Null
    ELSE Messages.fieldErrors.sortKey

\* urlRegExp.test(s), for
\* /^https?:\/\/(?:[a-z\-]+\.)+[a-z]{2,6}(?:\/[^\/#?]+)+\.(?:jpe?g|gif|png)$/.
\* UrlHost: (?:[a-z\-]+\.)+[a-z]{2,6} on the whole of t, labels closed by
\* dots, then 2 to 6 lower-case letters.  UrlPath: (?:\/[^\/#?]+)+ on the
\* whole of t, segments of a slash and at least one character that is none
\* of / # ?.  The host ends at the first slash after the scheme.
urlRegExp(s) ==
    LET StartsWith(t, prefix) ==
           Len(t) >= Len(prefix) /\ SubSeq(t, 1, Len(prefix)) = prefix
        EndsWith(t, suffix) ==
           /\ Len(t) >= Len(suffix)
           /\ SubSeq(t, Len(t) - Len(suffix) + 1, Len(t)) = suffix
        UrlHost(t) ==
           \E n \in 2..6 :
              /\ Len(t) >= n + 2
              /\ \A i \in (Len(t) - n + 1)..Len(t) : t[i] \in LowerCase
              /\ t[Len(t) - n] = "."
              /\ t[1] # "."
              /\ \A i \in 1..(Len(t) - n) : t[i] \in LowerCase \cup {"-", "."}
              /\ \A i \in 1..(Len(t) - n - 1) : t[i] # "." \/ t[i + 1] # "."
        UrlPath(t) ==
           /\ Len(t) >= 2
           /\ t[1] = "/" /\ t[Len(t)] # "/"
           /\ \A i \in 1..Len(t) : t[i] \notin {"#", "?"}
           /\ \A i \in 1..(Len(t) - 1) : t[i] # "/" \/ t[i + 1] # "/"
        UrlAfterScheme(t) ==
           \E i \in 1..Len(t) :
              /\ t[i] = "/"
              /\ \A j \in 1..(i - 1) : t[j] # "/"
              /\ UrlHost(SubSeq(t, 1, i - 1))
              /\ \E ext \in {<<".", "j", "p", "g">>,
                                 <<".", "j", "p", "e", "g">>,
                                 <<".", "g", "i", "f">>,
                                 <<".", "p", "n", "g">>} :
                    /\ EndsWith(t, ext)
                    /\ UrlPath(SubSeq(t, i, Len(t) - Len(ext)))
    IN \E scheme \in {<<"h", "t", "t", "p", ":", "/", "/">>,
                      <<"h", "t", "t", "p", "s", ":", "/", "/">>} :
          /\ StartsWith(s, scheme)
          /\ UrlAfterScheme(SubSeq(s, Len(scheme) + 1, Len(s)))

\* isInvalidImageURL (input)
isInvalidImageURL(input) ==
    IF ~urlRegExp(JsToString(input)) THEN Messages.fieldErrors.invalidImageURL
    ELSE Null

\* isInvalidCategory (input): input == a category, true of that string only
isInvalidCategory(input) ==
    IF input.type = "string" /\ input.str \in Types.categories THEN Null
    ELSE Messages.fieldErrors.invalidCategoryType

\* isInvalidObjectType (input)
isInvalidObjectType(input) ==
    IF /\ input.type = "string"
       /\ input.str \in {<<"u", "s", "e", "r">>, <<"p", "o", "s", "t">>,
                         <<"c", "h", "a", "r", "i", "t", "y">>,
                         <<"c", "a", "m", "p", "a", "i", "g", "n">>,
                         <<"u", "p", "d", "a", "t", "e">>,
                         <<"d", "o", "n", "a", "t", "i", "o", "n">>}
    THEN Null
    ELSE Messages.fieldErrors.invalidObjectType

\* a validator's call: the elements of the array literal are evaluated in
\* order, and one that throws ends the call; then getNamedErrorFromArray
Evaluated(errors, name) ==
    IF \E i \in 1..Len(errors) : errors[i] = TypeError
    THEN [threw |-> TRUE, ret |-> Undefined]
    ELSE [threw |-> FALSE, ret |-> getNamedErrorFromArray(errors, name)]

\* module.exports.email (name, input)
email(name, input) ==
    Evaluated(<<isInvalidString(input), isInvalidEmail(input)>>, name)

\* module.exports.password (name, input)
password(name, input) ==
    Evaluated(<<isInvalidString(input), isInvalidLength(input, 8, Omitted),
                isInvalidPassword(input)>>, name)

\* module.exports.string (name, input)
string(name, input) == Evaluated(<<isInvalidString(input)>>, name)

\* module.exports.number (name, input)
number(name, input) == Evaluated(<<isInvalidNumber(input)>>, name)

\* module.exports.category (name, input)
category(name, input) ==
    Evaluated(<<isInvalidString(input), isInvalidCategory(input)>>, name)

\* module.exports.objectType (name, input)
objectType(name, input) ==
    Evaluated(<<isInvalidString(input), isInvalidObjectType(input)>>, name)

\* module.exports.currency (name, input)
currency(name, input) ==
    Evaluated(<<isInvalidNumber(input), isInvalidSize(input, 1, 10000)>>, name)

\* module.exports.pageSize (name, input)
pageSize(name, input) ==
    Evaluated(<<isInvalidNumber(input), isInvalidSize(input, 1, 20)>>, name)

\* module.exports.sort (name, input)
sort(name, input) ==
    Evaluated(<<isInvalidString(input), isInvalidSort(input)>>, name)

\* module.exports.imageUrl (name, input)
imageUrl(name, input) ==
    Evaluated(<<isInvalidString(input), isInvalidImageURL(input)>>, name)

\* tools/Secretary: requestError (message), the error object of a request
\* that failed validation
requestError(message) == [error |-> "requestError", message |-> message]

\* null where an error object is expected: no error
NoRequestError == [error |-> Null, message |-> Null]

\* module.exports.catchErrors (errors)
catchErrors(errors) ==
    IF IsError(getErrorsFromArray(errors))
    THEN requestError(getErrorsFromArray(errors))
    ELSE NoRequestError

----------------------------------------------------------------------------
(* Calls of the validators *)

\* the string inputs: "", the passwords of the examples, sort keys, object
\* types, categories, and text that is or is not an e-mail address or an
\* image URL
Strings ==
    {<<>>,
     <<"a", "b", "c">>,
     <<"a", "b", "c", "d", "e", "f", "g", "h">>,
     <<"a", "b", "c", "d", "1", "2", "3", "4">>,
     <<"A", "B", "C", "D", "1", "2", "3", "4">>,
     <<"1", "2", "3", "4", "5", "6", "7", "8">>,
     <<"5">>,
     <<"a", "s", "c">>,
     <<"d", "e", "s", "c">>,
     <<"A", "S", "C">>,
     <<"p", "o", "s", "t">>,
     <<"d", "o", "n", "a", "t", "i", "o", "n">>,
     <<"a", "n", "i", "m", "a", "l", "s">>,
     <<"h", "e", "a", "l", "t", "h">>,
     <<"a", "@", "b", ".", "c", "o">>,
     <<"a", ".", "b", "@", "c", "-", "d", ".", "o", "r", "g">>,
     <<"a", "_", "1", "@", "b", ".", "c", "o", ".", "u", "k">>,
     <<"a", "@", "b">>,
     <<"a", "@", "b", ".", "c">>,
     <<"a", "@", "b", ".", "c", "o", "m", "m">>,
     <<"a", "@", "@", "b", ".", "c", "o">>,
     <<".", "a", "@", "b", ".", "c", "o">>,
     <<"a", ".", ".", "b", "@", "c", ".", "c", "o">>,
     <<"a", "@", "b", ".", ".", "c", "o">>,
     <<"h", "t", "t", "p", ":", "/", "/", "a", ".", "c", "o", "/", "x", ".", "p", "n", "g">>,
     <<"h", "t", "t", "p", "s", ":", "/", "/", "a", "-", "b", ".", "c", "o", "/", "d", "/", "x", ".", "j", "p", "e", "g">>,
     <<"h", "t", "t", "p", ":", "/", "/", "a", ".", "b", ".", "c", "o", "/", "x", ".", "y", ".", "g", "i", "f">>,
     <<"h", "t", "t", "p", ":", "/", "/", "a", ".", "c", "o", "/", "x", ".", "P", "N", "G">>,
     <<"h", "t", "t", "p", ":", "/", "/", "a", ".", "c", "o", "/", "/", "x", ".", "p", "n", "g">>,
     <<"f", "t", "p", ":", "/", "/", "a", ".", "c", "o", "/", "x", ".", "p", "n", "g">>,
     <<"h", "t", "t", "p", ":", "/", "/", "a", ".", "c", "o", "/", "x", "?", ".", "p", "n", "g">>,
     <<"h", "t", "t", "p", ":", "/", "/", "a", ".", "c", "/", "x", ".", "j", "p", "g">>,
     <<"h", "t", "t", "p", ":", "/", "/", "c", "o", "/", "x", ".", "j", "p", "g">>,
     <<"h", "t", "t", "p", ":", "/", "/", "a", ".", "c", "o", "/", ".", "j", "p", "g">>,
     <<"h", "t", "t", "p", ":", "/", "/", "A", ".", "c", "o", "/", "x", ".", "j", "p", "g">>}

\* numbers on both sides of the limits of every size rule
Numbers == (-1..2) \cup {5} \cup (19..22) \cup (9999..10002)

\* the values a route hands to a validator: an absent parameter, a value of
\* the wrong type, a number, a string
Values ==
    {JsNull, JsUndefined, JsBoolean(TRUE), JsBoolean(FALSE)}
       \cup {JsNumber(n) : n \in Numbers} \cup {JsNaN}
       \cup {JsString(s) : s \in Strings}

\* every string of up to MaxLen characters out of a letter, a digit and a
\* character that is neither
PasswordInputs ==
    {JsString(s) : s \in UNION {[1..n -> {"a", "1", "-"}] : n \in 0..MaxLen}}

\* the field names the routes pass
Names == {"password", "field"}

\* the number of validator results of the longest list given to catchErrors
MaxErrors == 3

\* what the validators of an e-mail, a text and an amount return for the
\* values a route hands them
ValidatorResults ==
    {r.ret : r \in UNION {{email(name, input), string(name, input),
                           currency(name, input)} :
                             name \in Names, input \in Values}}

\* the arrays a route builds of the results of its fields' validators
ErrorArrays == UNION {[1..n -> ValidatorResults] : n \in 0..MaxErrors}

\* a validator is a synchronous call: its arguments and its outcome (the
\* value returned, or an exception thrown) as the caller has them
Outcome(op, name, input, result) ==
    [pc |-> "done", op |-> op, model |-> "none", name |-> name,
     input |-> input, threw |-> result.threw, ret |-> result.ret]

\* no call has been made yet
NoCall == \A p \in Procs : proc[p].pc = "idle"

ValidationEmail ==
    /\ NoCall
    /\ \E name \in Names, input \in Values :
          proc' = [proc EXCEPT !["p1"] =
                      Outcome("email", name, input, email(name, input))]
    /\ UNCHANGED <<db, now, pushed, nops>>

ValidationPassword ==
    /\ NoCall
    /\ \E name \in Names, input \in Values \cup PasswordInputs :
          proc' = [proc EXCEPT !["p1"] =
                      Outcome("password", name, input, password(name, input))]
    /\ UNCHANGED <<db, now, pushed, nops>>

ValidationString ==
    /\ NoCall
    /\ \E name \in Names, input \in Values :
          proc' = [proc EXCEPT !["p1"] =
                      Outcome("string", name, input, string(name, input))]
    /\ UNCHANGED <<db, now, pushed, nops>>

ValidationNumber ==
    /\ NoCall
    /\ \E name \in Names, input \in Values :
          proc' = [proc EXCEPT !["p1"] =
                      Outcome("number", name, input, number(name, input))]
    /\ UNCHANGED <<db, now, pushed, nops>>

ValidationCategory ==
    /\ NoCall
    /\ \E name \in Names, input \in Values :
          proc' = [proc EXCEPT !["p1"] =
                      Outcome("category", name, input, category(name, input))]
    /\ UNCHANGED <<db, now, pushed, nops>>

ValidationObjectType ==
    /\ NoCall
    /\ \E name \in Names, input \in Values :
          proc' = [proc EXCEPT !["p1"] =
                      Outcome("objectType", name, input, objectType(name, input))]
    /\ UNCHANGED <<db, now, pushed, nops>>

ValidationCurrency ==
    /\ NoCall
    /\ \E name \in Names, input \in Values :
          proc' = [proc EXCEPT !["p1"] =
                      Outcome("currency", name, input, currency(name, input))]
    /\ UNCHANGED <<db, now, pushed, nops>>

ValidationPageSize ==
    /\ NoCall
    /\ \E name \in Names, input \in Values :
          proc' = [proc EXCEPT !["p1"] =
                      Outcome("pageSize", name, input, pageSize(name, input))]
    /\ UNCHANGED <<db, now, pushed, nops>>

ValidationSort ==
    /\ NoCall
    /\ \E name \in Names, input \in Values :
          proc' = [proc EXCEPT !["p1"] =
                      Outcome("sort", name, input, sort(name, input))]
    /\ UNCHANGED <<db, now, pushed, nops>>

ValidationImageUrl ==
    /\ NoCall
    /\ \E name \in Names, input \in Values :
          proc' = [proc EXCEPT !["p1"] =
                      Outcome("imageUrl", name, input, imageUrl(name, input))]
    /\ UNCHANGED <<db, now, pushed, nops>>

ValidationCatchErrors ==
    /\ NoCall
    /\ \E errors \in ErrorArrays :
          proc' = [proc EXCEPT !["p1"] =
                      Outcome("catchErrors", "", errors,
                              [threw |-> FALSE, ret |-> catchErrors(errors)])]
    /\ UNCHANGED <<db, now, pushed, nops>>

InitValidation ==
    /\ db = [m \in Models |-> <<>>]
    /\ now = 1
    /\ proc = [p \in Procs |-> Idle]
    /\ pushed = [k \in PushKeys |-> <<>>]
    /\ nops = 0

NextValidation ==
    \/ ValidationEmail
    \/ ValidationPassword
    \/ ValidationString
    \/ ValidationNumber
    \/ ValidationCategory
    \/ ValidationObjectType
    \/ ValidationCurrency
    \/ ValidationPageSize
    \/ ValidationSort
    \/ ValidationImageUrl
    \/ ValidationCatchErrors

\* one call of one validator on one input, or one call of catchErrors
SpecValidation == InitValidation /\ [][NextValidation]_vars

----------------------------------------------------------------------------
(* C19, C20 *)

\* C19: for every non-empty string s the password validator returns the
\* field name followed by the length error when s has fewer than 8
\* characters, otherwise by the missing-letter error when s has no letter,
\* otherwise by the missing-digit error when s has no digit, and otherwise
\* returns null.  "abc" gives the length error, "abcdefgh" the
\* missing-digit error, "abcd1234" no error.
C19_PasswordRulesInOrder ==
    \A p \in Procs :
       (proc[p].op = "password" /\ proc[p].input.type = "string"
          /\ proc[p].input.str # <<>>)
          => LET s == proc[p].input.str
                 name == proc[p].name
                 lengthError == name \o " must be 8 characters"
                 letterError == name \o Messages.fieldErrors.passwordLetter
                 digitError == name \o Messages.fieldErrors.passwordNumber
             IN /\ ~proc[p].threw
                /\ proc[p].ret =
                      IF Len(s) < 8 THEN lengthError
                      ELSE IF \A i \in 1..Len(s) : s[i] \notin Letter THEN letterError
                      ELSE IF \A i \in 1..Len(s) : s[i] \notin Digit THEN digitError
                      ELSE Null
                /\ s = <<"a", "b", "c">> => proc[p].ret = lengthError
                /\ s = <<"a", "b", "c", "d", "e", "f", "g", "h">>
                      => proc[p].ret = digitError
                /\ s = <<"a", "b", "c", "d", "1", "2", "3", "4">>
                      => proc[p].ret = Null

\* the password validator was called on "abcdefgh" and returned the
\* missing-digit error under the field's name
C19_Witness ==
    /\ proc["p1"].op = "password"
    /\ proc["p1"].name = "password"
    /\ proc["p1"].input = JsString(<<"a", "b", "c", "d", "e", "f", "g", "h">>)
    /\ proc["p1"].ret = "password {fieldErrors.passwordNumber}"

Validators ==
    {"string", "email", "password", "number", "currency", "pageSize", "sort",
     "category", "objectType", "imageUrl"}

\* the messages of the rules a validator applies after its type rule
LaterMessages(op) ==
    CASE op \in {"string", "number"} -> {}
      [] op = "email" -> {Messages.fieldErrors.isInvalid}
      [] op = "password" -> {" must be 8 characters",
                             Messages.fieldErrors.passwordLetter,
                             Messages.fieldErrors.passwordNumber}
      [] op = "currency" -> {" must be greater than 1", " must be less than 10000"}
      [] op = "pageSize" -> {" must be greater than 1", " must be less than 20"}
      [] op = "sort" -> {Messages.fieldErrors.sortKey}
      [] op = "category" -> {Messages.fieldErrors.invalidCategoryType}
      [] op = "objectType" -> {Messages.fieldErrors.invalidObjectType}
      [] op = "imageUrl" -> {Messages.fieldErrors.invalidImageURL}

\* C20: every field validator, on every input value (absent and wrongly
\* typed ones included), evaluates all its rules, so the call returns: null,
\* or the field name followed by the message of the first failing rule (the
\* type rule's when that one fails, else a later rule's).  An absent
\* password gives the missing-field error.
C20_ValidatorsReturnFirstFailingRule ==
    \A p \in Procs :
       proc[p].op \in Validators
          => LET name == proc[p].name
                 input == proc[p].input
                 first == IF proc[p].op \in {"number", "currency", "pageSize"}
                          THEN isInvalidNumber(input)
                          ELSE isInvalidString(input)
             IN /\ ~proc[p].threw
                /\ IsError(first) => proc[p].ret = name \o first
                /\ ~IsError(first)
                      => proc[p].ret \in
                            {Null} \cup {name \o m : m \in LaterMessages(proc[p].op)}
                /\ (proc[p].op = "password" /\ input.type \in {"null", "undefined"})
                      => proc[p].ret = name \o Messages.fieldErrors.missing

----------------------------------------------------------------------------
(* C21 *)

\* C21: for every input of type number, the currency validator returns null
\* exactly when 1 <= n <= 10000 and the pageSize validator exactly when
\* 1 <= n <= 20; for every n outside the range each returns the field name
\* followed by a range error.
C21_RangeValidatorsAcceptExactlyTheRange ==
    \A p \in Procs :
       (proc[p].op \in {"currency", "pageSize"} /\ proc[p].input.type = "number")
          => LET n == proc[p].input
                 name == proc[p].name
                 max == IF proc[p].op = "currency" THEN 10000 ELSE 20
                 inRange == ~n.nan /\ 1 <= n.num /\ n.num <= max
             IN /\ ~proc[p].threw
                /\ proc[p].ret = Null <=> inRange
                /\ ~inRange
                      => proc[p].ret \in
                            {name \o " must be greater than 1",
                             name \o " must be less than " \o ToString(max)}

----------------------------------------------------------------------------
(* C22 *)

\* C22: for every array of validator results, catchErrors returns the
\* request error built from the first entry that is not null, whatever the
\* entries after it are, and returns null exactly when every entry is null.
C22_CatchErrorsReportsFirstFailure ==
    \A p \in Procs :
       proc[p].op = "catchErrors"
          => LET errors == proc[p].input
             IN /\ ~proc[p].threw
                /\ proc[p].ret = NoRequestError
                      <=> \A i \in 1..Len(errors) : errors[i] = Null
                /\ \A i \in 1..Len(errors) :
                      (errors[i] # Null /\ \A j \in 1..(i - 1) : errors[j] = Null)
                         => proc[p].ret = requestError(errors[i])

\* catchErrors was given a passing field followed by two failing ones and
\* reported the first of the two
C22_Witness ==
    /\ proc["p1"].op = "catchErrors"
    /\ proc["p1"].input = <<Null, "field {fieldErrors.missing}",
                            "password must be greater than 1">>
    /\ proc["p1"].ret = requestError("field {fieldErrors.missing}")

----------------------------------------------------------------------------
(* C23 *)

\* C23: GUID never returns an unconfirmed identifier.  When it calls back
\* with an id and no error (the create goes on to its update, keyed by that
\* id), the lookup just answered was for exactly that id and found no
\* document of the collection; a candidate for which a document was found
\* is not returned: GUID runs again, with a new candidate under lookup.
C23_GuidReturnsOnlyConfirmedIds ==
    [][\A p \in Procs :
          (proc[p].pc = "guid" /\ proc'[p] # proc[p])
             => LET found == Found(proc[p].model, [guid |-> proc[p].GUID])
                IN /\ proc'[p].pc = "update"
                         => /\ ~found
                            /\ proc'[p].query = [guid |-> proc[p].GUID]
                   /\ (found /\ proc'[p].raised = Null)
                         => proc'[p].pc = "guid"]_vars

\* GUID has returned g2 to a create of a charity, after a lookup in a
\* collection that holds a charity g1
C23_Witness ==
    \E p \in Procs :
       /\ proc[p].op = "create" /\ proc[p].model = "Charity"
       /\ proc[p].pc = "update"
       /\ proc[p].query = [guid |-> "g2"]
       /\ Found("Charity", [guid |-> "g1"])
       /\ ~Found("Charity", [guid |-> "g2"])

----------------------------------------------------------------------------
(* Creates under fair scheduling *)

\* the identifiers no document of the collection of `model` has
Unused(model) == {g \in Guids : ~Found(model, [guid |-> g])}

\* the step of GUID in which Uuid.v4() gives an identifier that is unused
GUIDDrawsUnused(p) ==
    /\ GUID(p)
    /\ proc'[p].pc = "guid"
    /\ proc'[p].GUID \in Unused(proc[p].model)

NextCreate ==
    \E p \in Procs :
          \/ UserCreate(p)
          \/ CharityCreate(p)
          \/ PostCreate(p)
          \/ GUID(p)
          \/ DatabaseUpdate(p)

\* the creates alone; the store answers every lookup of GUID, and a
\* generator that is asked again and again gives an unused identifier
SpecCreate ==
    /\ Init
    /\ [][NextCreate]_vars
    /\ \A p \in Procs : WF_vars(GUID(p)) /\ WF_vars(GUIDDrawsUnused(p))

----------------------------------------------------------------------------
(* C24 *)

\* C24: GUID eventually returns.  While an identifier is unused in the
\* collection, a create that waits for GUID does not wait for ever: GUID
\* calls back (or the last unused identifier is taken by another create).
\* And GUID does not stop retrying while it has drawn used identifiers
\* only: the answer that its candidate exists leaves it looking up a
\* candidate.
C24_GuidEventuallyReturns ==
    /\ \A p \in Procs :
          (proc[p].pc = "guid" /\ Unused(proc[p].model) # {})
             ~> (proc[p].pc # "guid" \/ Unused(proc[p].model) = {})
    /\ [][\A p \in Procs :
             (proc[p].pc = "guid" /\ proc[p].GUID \notin Unused(proc[p].model)
                /\ proc'[p] # proc[p])
                => proc'[p].pc = "guid"]_vars

\* a create of a user waits for the lookup of g1, which a user has, while
\* g2 is unused
C24_Witness ==
    \E p \in Procs :
       /\ proc[p].op = "create" /\ proc[p].model = "User"
       /\ proc[p].pc = "guid"
       /\ proc[p].GUID = "g1"
       /\ Unused("User") = {"g2"}

----------------------------------------------------------------------------
(* C25 *)

\* C25: a successful edit applies every supplied field.  For each of caption
\* (post) and name, description, logo (charity) that the caller supplies
\* with a value v, the empty string included, the stored document holds v
\* for that field after the edit, and the update sets the supplied fields
\* and lastModified and nothing else.
C25_EditAppliesEverySuppliedField ==
    [][\A p \in Procs :
          (Applied(p) /\ proc[p].op = "edit" /\ proc'[p].err = Null /\ Target(p) # 0)
             => LET m == proc[p].model
                    i == Target(p)
                    args == proc[p].input
                    supplied == {f \in DOMAIN args : args[f] # Undefined}
                IN /\ \A f \in supplied : db'[m][i][f] = args[f]
                   /\ DOMAIN proc[p].update.set = supplied \cup {"lastModified"}
                   /\ DOMAIN proc[p].update.push = {}]_vars

----------------------------------------------------------------------------
(* C26 *)

\* the fields a call of edit supplies
Supplied(args) == {f \in DOMAIN args : args[f] # Undefined}

\* C26: mutations of different fields of one document are all preserved,
\* in every interleaving of their calls and of their writes.  When two
\* authorised edits supplying disjoint fields have both succeeded on a
\* document, the document holds the values both supplied; when an edit and
\* an append have both succeeded on it, the document holds the values the
\* edit supplied and every appended id.
C26_ConcurrentMutationsArePreserved ==
    \A p \in Procs : \A q \in Procs \ {p} :
       (/\ proc[p].pc = "done" /\ proc[p].op = "edit" /\ proc[p].err = Null
        /\ proc[q].pc = "done" /\ proc[q].err = Null
        /\ proc[q].model = proc[p].model /\ proc[q].ret = proc[p].ret
        /\ Found(proc[p].model, [guid |-> proc[p].ret])
        /\ \/ /\ proc[q].op = "edit"
              /\ Supplied(proc[p].input) \cap Supplied(proc[q].input) = {}
           \/ proc[q].op \in AppendOps)
          => LET m == proc[p].model
                 doc == findOne(m, [guid |-> proc[p].ret])
                 field == AppendField(proc[q].op)
                 ids == pushed[<<m, proc[p].ret, field>>]
             IN /\ \A f \in Supplied(proc[p].input) : doc[f] = proc[p].input[f]
                /\ proc[q].op \in AppendOps
                      => \A i \in 1..Len(ids) : Count(doc[field], ids[i]) >= 1

====
